---- MODULE Spec2Model ----
(***************************************************************************)
(* Model of the PERCLOS fatigue detector of sleepy_checkr                  *)
(* (src/src/perclos-detector.ts, src/src/fatigue-detector.ts).             *)
(*                                                                         *)
(* JavaScript numbers are modelled as exact fractions n/d extended with    *)
(* the IEEE special values: d = 0 with n = 1 is +Infinity, n = -1 is       *)
(* -Infinity and n = 0 is NaN.  Finite values are kept in lowest terms     *)
(* with d > 0.  Floating rounding error is not modelled.                   *)
(* Date.now() is the variable clock; one handler reads one clock value.    *)
(***************************************************************************)
EXTENDS Integers, Sequences, FiniteSets, TLC

(***************************************************************************)
(* Bounds of the model                                                     *)
(***************************************************************************)
MaxSamples == 3        \* updates accepted while the history holds fewer
MaxWindows == 2        \* the clock reaches MaxWindows whole windows ...
MaxFrames == 2         \* ... plus up to MaxFrames frame steps
FrameStepMs == 1000    \* milliseconds between two frames of the model
MaxPerclos == 50       \* largest PERCLOS fed to the score mapping alone
PerclosDen == 2        \* those PERCLOS values are multiples of 1/PerclosDen
MaxLid == 3            \* largest lid opening fed to the eye aspect ratio alone
MaxStarts == 2         \* presses of the start button
AppTickMs == 10000     \* milliseconds between two clock readings of the app

(***************************************************************************)
(* Program constants                                                       *)
(***************************************************************************)
WINDOW_MS == 60000
NORMAL_PERCLOS == 15
FATIGUE_PERCLOS == 20
DEFAULT_FRAME_MS == 33
MEASUREMENT_DURATION_MS == 30000

(***************************************************************************)
(* JavaScript number arithmetic                                            *)
(***************************************************************************)
Abs(i) == IF i < 0 THEN -i ELSE i

Sign(i) == IF i < 0 THEN -1 ELSE IF i > 0 THEN 1 ELSE 0

RECURSIVE GCD(_, _)
GCD(a, b) == IF b = 0 THEN a ELSE GCD(b, a % b)

\* n/d with d >= 0, in canonical form
Norm(n, d) ==
  IF d = 0 THEN [n |-> Sign(n), d |-> 0]
  ELSE LET g == GCD(Abs(n), d) IN [n |-> n \div g, d |-> d \div g]

Num(i) == [n |-> i, d |-> 1]

NaN == [n |-> 0, d |-> 0]

PosInf == [n |-> 1, d |-> 0]

IsNaN(a) == a.d = 0 /\ a.n = 0

IsFinite(a) == a.d > 0

Neg(a) == [n |-> -a.n, d |-> a.d]

Add(a, b) ==
  IF IsNaN(a) \/ IsNaN(b) THEN NaN
  ELSE IF a.d = 0 /\ b.d = 0 THEN (IF a.n = b.n THEN a ELSE NaN)
  ELSE Norm(a.n * b.d + b.n * a.d, a.d * b.d)

Sub(a, b) == Add(a, Neg(b))

Mul(a, b) == Norm(a.n * b.n, a.d * b.d)

Div(a, b) ==
  LET s == IF b.n < 0 THEN -1 ELSE 1
  IN Norm(s * a.n * b.d, s * a.d * b.n)

\* a < b as JavaScript evaluates it: false when either side is NaN
Lt(a, b) ==
  IF IsNaN(a) \/ IsNaN(b) THEN FALSE
  ELSE IF a.d = 0 /\ b.d = 0 THEN a.n < b.n
  ELSE a.n * b.d < b.n * a.d

\* a >= b as JavaScript evaluates it: false when either side is NaN
Ge(a, b) ==
  IF IsNaN(a) \/ IsNaN(b) THEN FALSE
  ELSE ~Lt(a, b)

MathMax(a, b) ==
  IF IsNaN(a) \/ IsNaN(b) THEN NaN
  ELSE IF Lt(a, b) THEN b ELSE a

\* Math.round: the nearest integer, halves towards +Infinity
MathRound(a) ==
  IF a.d = 0 THEN a
  ELSE Num((2 * a.n + a.d) \div (2 * a.d))

\* Math.sqrt on the squares the model's landmarks produce
MathSqrt(i) == Num(CHOOSE r \in 0..i : r * r = i)

(***************************************************************************)
(* fatigue-detector.ts: landmarks and the eye aspect ratio                 *)
(***************************************************************************)
EYE_LANDMARKS ==
  [LEFT  |-> [p1 |-> 33, p2 |-> 160, p3 |-> 158, p4 |-> 133, p5 |-> 153, p6 |-> 144],
   RIGHT |-> [p1 |-> 362, p2 |-> 385, p3 |-> 387, p4 |-> 263, p5 |-> 373, p6 |-> 380]]

distance(p1, p2) ==
  LET dx == p1.x - p2.x
      dy == p1.y - p2.y
  IN MathSqrt(dx * dx + dy * dy)

\* mutant: the horizontal distance is not doubled
calculateEAR_NoHalf(keypoints, indices) ==
  LET vertical1 == distance(keypoints[indices.p2], keypoints[indices.p6])
      vertical2 == distance(keypoints[indices.p3], keypoints[indices.p5])
      horizontal == distance(keypoints[indices.p1], keypoints[indices.p4])
  IN Div(Add(vertical1, vertical2), horizontal)

calculateEAR(keypoints, indices) ==
  LET p1 == keypoints[indices.p1]
      p2 == keypoints[indices.p2]
      p3 == keypoints[indices.p3]
      p4 == keypoints[indices.p4]
      p5 == keypoints[indices.p5]
      p6 == keypoints[indices.p6]
      vertical1 == distance(p2, p6)
      vertical2 == distance(p3, p5)
      horizontal == distance(p1, p4)
  IN Div(Add(vertical1, vertical2), Mul(Num(2), horizontal))

(***************************************************************************)
(* The faces the detection loop feeds to update: an eye of width w and     *)
(* lid opening v, drawn at horizontal offset x0.                           *)
(***************************************************************************)
EyeAt(ix, x0, w, v) ==
  (ix.p1 :> [x |-> x0, y |-> 0]) @@ (ix.p4 :> [x |-> x0 + w, y |-> 0]) @@
  (ix.p2 :> [x |-> x0 + 3, y |-> v]) @@ (ix.p6 :> [x |-> x0 + 3, y |-> 0]) @@
  (ix.p3 :> [x |-> x0 + 6, y |-> v]) @@ (ix.p5 :> [x |-> x0 + 6, y |-> 0])

Face(l, r) ==
  EyeAt(EYE_LANDMARKS.LEFT, 0, l[1], l[2]) @@ EyeAt(EYE_LANDMARKS.RIGHT, 100, r[1], r[2])

ShutEye == <<10, 1>>        \* ratio 0.1
HalfEye == <<10, 2>>        \* ratio 0.2, the threshold
OpenEye == <<10, 3>>        \* ratio 0.3
FlatEye == <<0, 2>>         \* zero width: ratio Infinity
NoEye == <<0, 0>>           \* all landmarks on one point: ratio NaN

Faces ==
  {Face(ShutEye, ShutEye), Face(HalfEye, HalfEye), Face(OpenEye, OpenEye),
   Face(FlatEye, FlatEye), Face(NoEye, NoEye), Face(ShutEye, OpenEye)}

(***************************************************************************)
(* perclos-detector.ts: PERCLOSDetector                                    *)
(***************************************************************************)
EAR_THRESHOLD == Norm(1, 5)

VARIABLES
  earHistory,       \* EARRecord[], oldest first
  startTime,        \* Date.now() at construction
  lastUpdateTime,   \* Date.now() of the last update
  clock,            \* Date.now()
  ret,              \* <<[at, value]>> right after getScore; <<>> after update (void) or a tick
  perclosIn,        \* score mapping alone: the PERCLOS values to map
  mapped,           \* score mapping alone: their FatigueScores
  eyesIn,           \* eye aspect ratio alone: the shapes <<width, lid1, lid2>> of both eyes
  earOut,           \* eye aspect ratio alone: <<leftEAR, rightEAR, avgEAR>>
  currentState,     \* SpotCheckApp.currentState
  isRunning,        \* SpotCheckApp.isRunning
  srcObject,        \* video.srcObject: 0 (null) or the call whose stream it is
  liveStreams,      \* the calls whose camera stream has tracks not yet stopped
  onloadedmetadata, \* video.onloadedmetadata: 0 (unset) or the call that set it
  perclosDetector,  \* SpotCheckApp.perclosDetector: 0 (null) or the call that created it
  measurementElapsed,          \* Date.now() - measurementStartTime, counted up to the duration
  startPc,          \* where each call of startMeasurement stands
  loopPc,           \* where the detection loop each call started stands
  cancelled         \* history: cancelMeasurement has run since the last press of start

appVars ==
  <<currentState, isRunning, srcObject, liveStreams, onloadedmetadata, perclosDetector,
    measurementElapsed, startPc, loopPc, cancelled>>

detectorVars ==
  <<earHistory, startTime, lastUpdateTime, clock, ret, perclosIn, mapped, eyesIn, earOut>>

vars == <<detectorVars, appVars>>

SelectRecords(h, cutoff) == SelectSeq(h, LAMBDA record : record.timestamp > cutoff)

\* mutant: the window's cutoff instant itself counts as recent
getRecentEARs_Inclusive(h, now) ==
  LET cutoff == now - WINDOW_MS
  IN SelectSeq(h, LAMBDA record : record.timestamp >= cutoff)

getRecentEARs(h, now) ==
  LET cutoff == now - WINDOW_MS
  IN SelectRecords(h, cutoff)

\* mutant: a sample exactly 2W old survives the pruning
cleanOldData_Inclusive(h, now) ==
  LET cutoff == now - WINDOW_MS * 2
  IN SelectSeq(h, LAMBDA record : record.timestamp >= cutoff)

\* mutant: the pruning keeps one window only
cleanOldData_OneWindow(h, now) ==
  LET cutoff == now - WINDOW_MS
  IN SelectRecords(h, cutoff)

cleanOldData(h, now) ==
  LET cutoff == now - WINDOW_MS * 2
  IN SelectRecords(h, cutoff)

\* mutant: the last record always gets the default frame time
frameDuration_LastDefault(earRecords, i) ==
  IF i < Len(earRecords) THEN earRecords[i + 1].timestamp - earRecords[i].timestamp
  ELSE DEFAULT_FRAME_MS

\* the frame duration the loop gives record i of earRecords
frameDuration(earRecords, i) ==
  IF i < Len(earRecords) THEN earRecords[i + 1].timestamp - earRecords[i].timestamp
  ELSE IF i > 1 THEN earRecords[i].timestamp - earRecords[i - 1].timestamp
  ELSE DEFAULT_FRAME_MS

\* mutant: closed unless the ratio is above the threshold
isClosed_NotAbove(record) == ~Lt(EAR_THRESHOLD, record.ear)

isClosed(record) == Lt(record.ear, EAR_THRESHOLD)

\* closedTimeMs after the loop has run over records 1..i
RECURSIVE closedTimeMs(_, _)
closedTimeMs(earRecords, i) ==
  IF i = 0 THEN 0
  ELSE closedTimeMs(earRecords, i - 1) +
       (IF isClosed(earRecords[i]) THEN frameDuration(earRecords, i) ELSE 0)

calculateClosurePercentage(earRecords, windowMs) ==
  IF Len(earRecords) = 0 THEN Num(0)
  ELSE Mul(Div(Num(closedTimeMs(earRecords, Len(earRecords))), Num(windowMs)), Num(100))

\* mutant: the full window is the denominator from the first call on
calculatePERCLOS_FullWindow(h, t0, now) ==
  LET recentEARs == getRecentEARs(h, now)
  IN IF Len(recentEARs) = 0 THEN Num(0)
     ELSE calculateClosurePercentage(recentEARs, WINDOW_MS)

\* mutant: the closed time is accumulated over the whole retained history
calculatePERCLOS_WholeHistory(h, t0, now) ==
  LET recentEARs == getRecentEARs(h, now)
      elapsedMs == now - t0
      actualWindowMs == IF elapsedMs < WINDOW_MS THEN elapsedMs ELSE WINDOW_MS
  IN IF Len(recentEARs) = 0 THEN Num(0)
     ELSE calculateClosurePercentage(h, actualWindowMs)

calculatePERCLOS(h, t0, now) ==
  LET recentEARs == getRecentEARs(h, now)
      elapsedMs == now - t0
      actualWindowMs == IF elapsedMs < WINDOW_MS THEN elapsedMs ELSE WINDOW_MS
  IN IF Len(recentEARs) = 0 THEN Num(0)
     ELSE calculateClosurePercentage(recentEARs, actualWindowMs)

\* mutant: the fatigue branch reaches 0 at 40, not 45
scoreBeforeRound_Steeper(perclos) ==
  IF Ge(perclos, Num(FATIGUE_PERCLOS))
    THEN MathMax(Num(0), Sub(Num(100), Mul(Sub(perclos, Num(FATIGUE_PERCLOS)), Num(5))))
  ELSE IF Ge(perclos, Num(NORMAL_PERCLOS))
    THEN Sub(Num(100), Mul(Sub(perclos, Num(NORMAL_PERCLOS)), Num(4)))
  ELSE Sub(Num(100), Mul(perclos, Div(Num(20), Num(15))))

\* the local score of getScore before Math.round
scoreBeforeRound(perclos) ==
  IF Ge(perclos, Num(FATIGUE_PERCLOS))
    THEN MathMax(Num(0), Sub(Num(100), Mul(Sub(perclos, Num(FATIGUE_PERCLOS)), Num(4))))
  ELSE IF Ge(perclos, Num(NORMAL_PERCLOS))
    THEN Sub(Num(100), Mul(Sub(perclos, Num(NORMAL_PERCLOS)), Num(4)))
  ELSE Sub(Num(100), Mul(perclos, Div(Num(20), Num(15))))

\* the local level of getScore
levelOf(perclos) ==
  IF Ge(perclos, Num(FATIGUE_PERCLOS)) THEN "fatigue"
  ELSE IF Ge(perclos, Num(NORMAL_PERCLOS)) THEN "mild fatigue"
  ELSE "normal"

\* the score, level and details getScore derives from perclos
scoreOf(perclos) ==
  [score |-> MathRound(scoreBeforeRound(perclos)),
   level |-> levelOf(perclos),
   details |-> <<"PERCLOS ", Div(MathRound(Mul(perclos, Num(10))), Num(10)), "%">>]

getScore(h, t0, now) == scoreOf(calculatePERCLOS(h, t0, now))

(***************************************************************************)
(* Operations                                                              *)
(***************************************************************************)
\* SpotCheckApp after its constructor
AppInit ==
  /\ currentState = "idle"
  /\ isRunning = FALSE
  /\ srcObject = 0
  /\ liveStreams = {}
  /\ onloadedmetadata = 0
  /\ perclosDetector = 0
  /\ measurementElapsed = MEASUREMENT_DURATION_MS
  /\ startPc = [c \in 1..MaxStarts |-> "unused"]
  /\ loopPc = [c \in 1..MaxStarts |-> "unused"]
  /\ cancelled = FALSE

ClockValues ==
  {w * WINDOW_MS + f * FrameStepMs : w \in 0..MaxWindows, f \in 0..MaxFrames}

Init ==
  /\ clock = 0
  /\ startTime = clock
  /\ lastUpdateTime = clock
  /\ earHistory = <<>>
  /\ ret = <<>>
  /\ perclosIn = <<>>
  /\ mapped = <<>>
  /\ eyesIn = <<>>
  /\ earOut = <<>>
  /\ AppInit

\* time passes between two handlers; the caller has consumed the last return value
Tick ==
  /\ \E d \in {FrameStepMs, WINDOW_MS} :
       /\ clock + d \in ClockValues
       /\ clock' = clock + d
  /\ ret' = <<>>
  /\ UNCHANGED <<earHistory, startTime, lastUpdateTime, perclosIn, mapped, eyesIn, earOut, appVars>>

\* avgEAR, the mean of both eyes' ratios, as update computes it
averageEAR(keypoints) ==
  LET leftEAR == calculateEAR(keypoints, EYE_LANDMARKS.LEFT)
      rightEAR == calculateEAR(keypoints, EYE_LANDMARKS.RIGHT)
  IN Div(Add(leftEAR, rightEAR), Num(2))

update(keypoints) ==
  LET avgEAR == averageEAR(keypoints)
      now == clock
  IN /\ earHistory' = cleanOldData(Append(earHistory, [timestamp |-> now, ear |-> avgEAR]), now)
     /\ lastUpdateTime' = now
     /\ ret' = <<>>
     /\ UNCHANGED <<startTime, clock, perclosIn, mapped, eyesIn, earOut, appVars>>

Update ==
  /\ Len(earHistory) < MaxSamples
  /\ \E keypoints \in Faces : update(keypoints)

\* mutant: getScore stores the filtered list back into the history
GetScore_Pruning ==
  /\ ret' = <<[at |-> clock, value |-> getScore(earHistory, startTime, clock)]>>
  /\ earHistory' = getRecentEARs(earHistory, clock)
  /\ UNCHANGED <<startTime, lastUpdateTime, clock, perclosIn, mapped, eyesIn, earOut, appVars>>

GetScore ==
  /\ ret' = <<[at |-> clock, value |-> getScore(earHistory, startTime, clock)]>>
  /\ UNCHANGED <<earHistory, startTime, lastUpdateTime, clock, perclosIn, mapped, eyesIn, earOut, appVars>>

Next == Tick \/ Update \/ GetScore

Spec == Init /\ [][Next]_vars

(***************************************************************************)
(* The score mapping alone, applied to PERCLOS values drawn from a grid    *)
(***************************************************************************)
PerclosInputs ==
  {Norm(k, PerclosDen) : k \in 0..(MaxPerclos * PerclosDen)} \cup {NaN, PosInf}

ScoreInit ==
  /\ clock = 0
  /\ startTime = clock
  /\ lastUpdateTime = clock
  /\ earHistory = <<>>
  /\ ret = <<>>
  /\ perclosIn \in PerclosInputs \X PerclosInputs
  /\ mapped = <<>>
  /\ eyesIn = <<>>
  /\ earOut = <<>>
  /\ AppInit

MapScore ==
  /\ mapped = <<>>
  /\ mapped' = <<scoreOf(perclosIn[1]), scoreOf(perclosIn[2])>>
  /\ UNCHANGED <<earHistory, startTime, lastUpdateTime, clock, ret, perclosIn, eyesIn, earOut, appVars>>

ScoreNext == MapScore

ScoreSpec == ScoreInit /\ [][ScoreNext]_vars

(***************************************************************************)
(* The eye aspect ratio alone, applied to eye shapes drawn from a grid:    *)
(* the corners are apart by the offset <<dx, dy>>, of length len, and the  *)
(* two lid pairs are open by lid1 and lid2.                                *)
(***************************************************************************)
Corners ==
  {[dx |-> 0, dy |-> 0, len |-> 0], [dx |-> 5, dy |-> 0, len |-> 5],
   [dx |-> 10, dy |-> 0, len |-> 10], [dx |-> 6, dy |-> 8, len |-> 10]}

EyeShapes == [corner : Corners, lid1 : 0..MaxLid, lid2 : 0..MaxLid]

EyeOf(ix, x0, shape) ==
  (ix.p1 :> [x |-> x0, y |-> 0]) @@
  (ix.p4 :> [x |-> x0 + shape.corner.dx, y |-> shape.corner.dy]) @@
  (ix.p2 :> [x |-> x0 + 3, y |-> shape.lid1]) @@ (ix.p6 :> [x |-> x0 + 3, y |-> 0]) @@
  (ix.p3 :> [x |-> x0 + 6, y |-> shape.lid2]) @@ (ix.p5 :> [x |-> x0 + 6, y |-> 0])

FaceOf(eyes) ==
  EyeOf(EYE_LANDMARKS.LEFT, 0, eyes[1]) @@ EyeOf(EYE_LANDMARKS.RIGHT, 100, eyes[2])

EarInit ==
  /\ clock = 0
  /\ startTime = clock
  /\ lastUpdateTime = clock
  /\ earHistory = <<>>
  /\ ret = <<>>
  /\ perclosIn = <<>>
  /\ mapped = <<>>
  /\ eyesIn \in EyeShapes \X EyeShapes
  /\ earOut = <<>>
  /\ AppInit

\* the first lines of update, up to avgEAR
ComputeEAR ==
  /\ earOut = <<>>
  /\ LET keypoints == FaceOf(eyesIn)
     IN earOut' = <<calculateEAR(keypoints, EYE_LANDMARKS.LEFT),
                    calculateEAR(keypoints, EYE_LANDMARKS.RIGHT),
                    averageEAR(keypoints)>>
  /\ UNCHANGED <<earHistory, startTime, lastUpdateTime, clock, ret, perclosIn, mapped, eyesIn, appVars>>

EarNext == ComputeEAR

EarSpec == EarInit /\ [][EarNext]_vars

(***************************************************************************)
(* SpotCheckApp: the measurement flow around the detector.  A call of      *)
(* startMeasurement is named by its number c; its camera stream and the    *)
(* detection loop it starts carry the same number.  Code between two       *)
(* awaits runs as one step.  The start button is taken to be in the idle   *)
(* container, the cancel button in the measuring container (shown while    *)
(* initializing and measuring) and the retry button in the result          *)
(* container, so each can be pressed only while setState shows it.  The    *)
(* detector's own state is left as constructed here, and the timer and the *)
(* camera toggle, which only draw, are left out.                           *)
(***************************************************************************)
Calls == 1..MaxStarts

\* stopCamera: the value it leaves in <<video.srcObject, live streams>>
stopCamera == IF srcObject # 0 THEN <<0, liveStreams \ {srcObject}>> ELSE <<srcObject, liveStreams>>

\* click on start: startMeasurement up to its first await
StartClick ==
  /\ currentState = "idle"
  /\ \E c \in Calls :
       /\ startPc[c] = "unused"
       /\ \A b \in Calls : b < c => startPc[b] # "unused"
       /\ startPc' = [startPc EXCEPT ![c] = "getUserMedia"]
  /\ currentState' = "initializing"
  /\ cancelled' = FALSE
  /\ UNCHANGED <<isRunning, srcObject, liveStreams, onloadedmetadata, perclosDetector,
                 measurementElapsed, loopPc, detectorVars>>

\* getUserMedia resolves: the stream is put on the video and the metadata awaited
CameraGranted(c) ==
  /\ startPc[c] = "getUserMedia"
  /\ liveStreams' = liveStreams \cup {c}
  /\ srcObject' = c
  /\ onloadedmetadata' = c
  /\ startPc' = [startPc EXCEPT ![c] = "loadedmetadata"]
  /\ UNCHANGED <<currentState, isRunning, perclosDetector, measurementElapsed, loopPc, cancelled,
                 detectorVars>>

\* the catch block of startMeasurement
startFailed(c) ==
  /\ srcObject' = stopCamera[1]
  /\ liveStreams' = stopCamera[2]
  /\ currentState' = "idle"
  /\ startPc' = [startPc EXCEPT ![c] = "done"]
  /\ UNCHANGED <<isRunning, onloadedmetadata, perclosDetector, measurementElapsed, loopPc, cancelled,
                 detectorVars>>

\* getUserMedia rejects
CameraDenied(c) ==
  /\ startPc[c] = "getUserMedia"
  /\ startFailed(c)

\* the video loads the metadata of the stream this call put on it
MetadataLoaded(c) ==
  /\ startPc[c] = "loadedmetadata"
  /\ onloadedmetadata = c
  /\ srcObject = c
  /\ startPc' = [startPc EXCEPT ![c] = "initialize"]
  /\ UNCHANGED <<currentState, isRunning, srcObject, liveStreams, onloadedmetadata,
                 perclosDetector, measurementElapsed, loopPc, cancelled, detectorVars>>

\* detector.initialize resolves: the measurement begins and the loop's first
\* detect() call is made
InitializeDone(c) ==
  /\ startPc[c] = "initialize"
  /\ perclosDetector' = c
  /\ currentState' = "measuring"
  /\ measurementElapsed' = 0
  /\ isRunning' = TRUE
  /\ loopPc' = [loopPc EXCEPT ![c] = "detect"]
  /\ startPc' = [startPc EXCEPT ![c] = "done"]
  /\ UNCHANGED <<srcObject, liveStreams, onloadedmetadata, cancelled, detectorVars>>

\* detector.initialize rejects
InitializeFailed(c) ==
  /\ startPc[c] = "initialize"
  /\ startFailed(c)

\* click on cancel
cancelMeasurement ==
  /\ currentState \in {"initializing", "measuring"}
  /\ isRunning' = FALSE
  /\ srcObject' = stopCamera[1]
  /\ liveStreams' = stopCamera[2]
  /\ currentState' = "idle"
  /\ cancelled' = TRUE
  /\ UNCHANGED <<onloadedmetadata, perclosDetector, measurementElapsed, startPc, loopPc, detectorVars>>

\* click on retry
retryMeasurement ==
  /\ currentState = "result"
  /\ currentState' = "idle"
  /\ UNCHANGED <<isRunning, srcObject, liveStreams, onloadedmetadata, perclosDetector,
                 measurementElapsed, startPc, loopPc, cancelled, detectorVars>>

completeMeasurement ==
  /\ isRunning' = FALSE
  /\ srcObject' = stopCamera[1]
  /\ liveStreams' = stopCamera[2]
  /\ currentState' = IF perclosDetector = 0 THEN "idle" ELSE "result"

\* the awaited detect() resolves: the rest of the try block
DetectResolved(c) ==
  /\ loopPc[c] = "detect"
  /\ IF measurementElapsed >= MEASUREMENT_DURATION_MS
       THEN /\ completeMeasurement
            /\ loopPc' = [loopPc EXCEPT ![c] = "ended"]
       ELSE /\ loopPc' = [loopPc EXCEPT ![c] = "frame"]
            /\ UNCHANGED <<currentState, isRunning, srcObject, liveStreams>>
  /\ UNCHANGED <<onloadedmetadata, perclosDetector, measurementElapsed, startPc, cancelled, detectorVars>>

\* the awaited detect() rejects: the catch block, then requestAnimationFrame
DetectThrew(c) ==
  /\ loopPc[c] = "detect"
  /\ loopPc' = [loopPc EXCEPT ![c] = "frame"]
  /\ UNCHANGED <<currentState, isRunning, srcObject, liveStreams, onloadedmetadata,
                 perclosDetector, measurementElapsed, startPc, cancelled, detectorVars>>

\* the animation frame callback: detect up to its await
Frame(c) ==
  /\ loopPc[c] = "frame"
  /\ loopPc' = [loopPc EXCEPT ![c] = IF ~isRunning THEN "ended" ELSE "detect"]
  /\ UNCHANGED <<currentState, isRunning, srcObject, liveStreams, onloadedmetadata,
                 perclosDetector, measurementElapsed, startPc, cancelled, detectorVars>>

\* time passes
AppTick ==
  /\ measurementElapsed < MEASUREMENT_DURATION_MS
  /\ measurementElapsed' = IF measurementElapsed + AppTickMs >= MEASUREMENT_DURATION_MS
                  THEN MEASUREMENT_DURATION_MS ELSE measurementElapsed + AppTickMs
  /\ UNCHANGED <<currentState, isRunning, srcObject, liveStreams, onloadedmetadata,
                 perclosDetector, startPc, loopPc, cancelled, detectorVars>>

AppNext ==
  \/ StartClick
  \/ cancelMeasurement
  \/ retryMeasurement
  \/ AppTick
  \/ \E c \in Calls :
       \/ CameraGranted(c)
       \/ CameraDenied(c)
       \/ MetadataLoaded(c)
       \/ InitializeDone(c)
       \/ InitializeFailed(c)
       \/ DetectResolved(c)
       \/ DetectThrew(c)
       \/ Frame(c)

AppSpec == Init /\ [][AppNext]_vars

\* what the browser guarantees: time passes, a pending animation frame callback
\* runs, and an awaited detect() settles one way or the other
AppFairness ==
  /\ WF_vars(AppTick)
  /\ \A c \in Calls : WF_vars(Frame(c))
  /\ \A c \in Calls : WF_vars(DetectResolved(c) \/ DetectThrew(c))

AppFairSpec == AppSpec /\ AppFairness

(***************************************************************************)
(* Claims about the score mapping (checked under ScoreSpec)                *)
(***************************************************************************)

\* C1: at PERCLOS exactly 15 the returned score is 80, and it differs from the
\* score of the grid value just below 15 by no more than 1 (rounding).
C1_ContinuousAt15 ==
  mapped # <<>> =>
    /\ perclosIn[1] = Num(NORMAL_PERCLOS) => mapped[1].score = Num(80)
    /\ (perclosIn[1] = Norm(NORMAL_PERCLOS * PerclosDen - 1, PerclosDen)
        /\ perclosIn[2] = Num(NORMAL_PERCLOS))
         => Abs(mapped[1].score.n - mapped[2].score.n) <= 1

\* C2: at PERCLOS exactly 20 the returned score is 60, and it differs from the
\* score of the grid value just below 20 by no more than 1 (rounding).
C2_ContinuousAt20 ==
  mapped # <<>> =>
    /\ perclosIn[1] = Num(FATIGUE_PERCLOS) => mapped[1].score = Num(60)
    /\ (perclosIn[1] = Norm(FATIGUE_PERCLOS * PerclosDen - 1, PerclosDen)
        /\ perclosIn[2] = Num(FATIGUE_PERCLOS))
         => Abs(mapped[1].score.n - mapped[2].score.n) <= 1

\* C3: for finite PERCLOS values p1 <= p2 (both >= 0) the score of p1 is
\* greater than or equal to the score of p2.
C3_Monotonic ==
  (/\ mapped # <<>>
   /\ IsFinite(perclosIn[1]) /\ IsFinite(perclosIn[2])
   /\ Ge(perclosIn[2], perclosIn[1]))
    => Ge(mapped[1].score, mapped[2].score)

(***************************************************************************)
(* Claims about the detector (checked under Spec)                          *)
(***************************************************************************)
Returned == ret # <<>>

\* the PERCLOS the last getScore computed (history and start time are as then)
ReturnedPERCLOS == calculatePERCLOS(earHistory, startTime, ret[1].at)

\* the recent samples the last getScore used
ReturnedRecent == getRecentEARs(earHistory, ret[1].at)

\* C4: every score getScore returns is an integer in [0, 100]: finite, never
\* NaN, never negative, never above 100.
C4_ScoreInRange ==
  Returned =>
    LET score == ret[1].value.score
    IN /\ IsFinite(score)
       /\ score.d = 1
       /\ score.n >= 0
       /\ score.n <= 100

\* C5: getScore at the instant of construction (now = t0) yields PERCLOS 0,
\* score 100 and level normal, whatever samples the history holds.
C5_ZeroWindow ==
  (Returned /\ ret[1].at = startTime) =>
    /\ ReturnedPERCLOS = Num(0)
    /\ ret[1].value.score = Num(100)
    /\ ret[1].value.level = "normal"

\* the effective window of the last getScore
ReturnedWindow ==
  LET elapsed == ret[1].at - startTime
  IN IF elapsed < 60000 THEN elapsed ELSE 60000

\* a ratio that is a finite number strictly below 0.2 = 1/5
BelowThreshold(ear) == ear.d > 0 /\ 5 * ear.n < ear.d

\* the weight the frame-duration rule gives sample i of a list of recent samples
RuleWeight(recent, i) ==
  IF i < Len(recent) THEN recent[i + 1].timestamp - recent[i].timestamp
  ELSE IF Len(recent) > 1 THEN recent[i].timestamp - recent[i - 1].timestamp
  ELSE 33

RECURSIVE SumWeights(_, _)
SumWeights(recent, indices) ==
  IF indices = {} THEN 0
  ELSE LET i == CHOOSE j \in indices : TRUE
       IN RuleWeight(recent, i) + SumWeights(recent, indices \ {i})

RuleClosedTime(recent) ==
  SumWeights(recent, {i \in DOMAIN recent : BelowThreshold(recent[i].ear)})

ExampleHistory ==
  <<[timestamp |-> 0, ear |-> Norm(1, 10)],
    [timestamp |-> 1000, ear |-> Norm(1, 10)],
    [timestamp |-> 2000, ear |-> Norm(3, 10)]>>

\* C6: the closed time getScore accumulates is the sum, over the closed recent
\* samples, of the delta to the next recent sample (for the last one: the delta
\* to the previous one, or 33 ms when it is alone), and with a non-zero
\* effective window the result is that of PERCLOS = 100 x closedTime / window;
\* samples at 0, 1000, 2000 with ratios 0.1, 0.1, 0.3 queried at 2000 give
\* closed time 2000, PERCLOS 100, score 0, level fatigue.
C6_FrameDurationRule ==
  Returned =>
    LET recent == ReturnedRecent
        closed == RuleClosedTime(recent)
    IN /\ closedTimeMs(recent, Len(recent)) = closed
       /\ (recent # <<>> /\ ReturnedWindow > 0) =>
            /\ ReturnedPERCLOS = Norm(100 * closed, ReturnedWindow)
            /\ ret[1].value = scoreOf(Norm(100 * closed, ReturnedWindow))
       /\ (earHistory = ExampleHistory /\ startTime = 0 /\ ret[1].at = 2000) =>
            /\ closed = 2000
            /\ ReturnedPERCLOS = Num(100)
            /\ ret[1].value.score = Num(0)
            /\ ret[1].value.level = "fatigue"

C6_Witness ==
  /\ Returned
  /\ earHistory = ExampleHistory
  /\ startTime = 0
  /\ ret[1].at = 2000
  /\ ret[1].value.score = Num(0)

\* C7: after any update at time now, every retained sample has
\* timestamp > now - 2W (now is lastUpdateTime; only update changes the history).
C7_PruningInvariant ==
  \A i \in DOMAIN earHistory :
    earHistory[i].timestamp > lastUpdateTime - 2 * 60000

\* an update at least 2W after construction that kept a sample older than W
C7_Witness ==
  /\ ret = <<>>
  /\ lastUpdateTime = clock
  /\ lastUpdateTime - 2 * 60000 >= startTime
  /\ \E i \in DOMAIN earHistory : earHistory[i].timestamp <= lastUpdateTime - 60000

\* C8: closed time is accumulated exactly from the samples whose ratio is a
\* finite number strictly below 0.2: when no recent sample is one, the closed
\* time is 0, and a recent sample that is one and has a positive frame duration
\* makes it positive; a ratio equal to 0.2, above it, NaN or infinite adds nothing.
C8_ClosedIffBelowThreshold ==
  Returned =>
    LET recent == ReturnedRecent
        total == closedTimeMs(recent, Len(recent))
    IN /\ (total > 0) <=>
            \E i \in DOMAIN recent :
              BelowThreshold(recent[i].ear) /\ frameDuration(recent, i) > 0
       /\ (ReturnedWindow > 0 /\ \A i \in DOMAIN recent : ~BelowThreshold(recent[i].ear))
            => /\ ret[1].value.score = Num(100)
               /\ ret[1].value.level = "normal"

\* getScore over recent samples that are NaN, infinite and exactly 0.2
C8_Witness ==
  /\ Returned
  /\ ReturnedWindow > 0
  /\ \E i \in DOMAIN ReturnedRecent : IsNaN(ReturnedRecent[i].ear)
  /\ \E i \in DOMAIN ReturnedRecent : ReturnedRecent[i].ear = PosInf
  /\ \E i \in DOMAIN ReturnedRecent : ReturnedRecent[i].ear = Norm(1, 5)
  /\ ret[1].value.score = Num(100)

\* C9: when the history holds no sample with timestamp > now - W (in
\* particular when it is empty), getScore returns PERCLOS 0, score 100, normal.
C9_NoRecentData ==
  (Returned /\ \A i \in DOMAIN earHistory : earHistory[i].timestamp <= ret[1].at - 60000) =>
    /\ ReturnedPERCLOS = Num(0)
    /\ ret[1].value.score = Num(100)
    /\ ret[1].value.level = "normal"
    /\ ret[1].value.details[2] = Num(0)

\* getScore over a history whose samples are all outside the window
C9_Witness ==
  /\ Returned
  /\ earHistory # <<>>
  /\ \A i \in DOMAIN earHistory : earHistory[i].timestamp <= ret[1].at - 60000
  /\ \E i \in DOMAIN earHistory : BelowThreshold(earHistory[i].ear)
  /\ ret[1].value.score = Num(100)

\* C10: a getScore step leaves the history and the creation time unchanged, and
\* a getScore that follows a getScore at the same now, with no update between,
\* returns the identical score, level and details.
C10_Idempotent ==
  [][/\ ret' # <<>> => (earHistory' = earHistory /\ startTime' = startTime)
     /\ (ret # <<>> /\ ret' # <<>> /\ ret'[1].at = ret[1].at) => ret'[1].value = ret[1].value]_vars

\* getScore has returned a non-zero PERCLOS over a history with old and recent samples
C10_Witness ==
  /\ Returned
  /\ Len(earHistory) > Len(ReturnedRecent)
  /\ ReturnedRecent # <<>>
  /\ ReturnedPERCLOS # Num(0)

\* C11: the PERCLOS denominator is min(now - t0, W): the elapsed time since
\* creation while it is below W = 60000 ms, and exactly W from then on.
C11_EffectiveWindow ==
  (Returned /\ ReturnedRecent # <<>>) =>
    LET elapsed == ret[1].at - startTime
        closed == closedTimeMs(ReturnedRecent, Len(ReturnedRecent))
    IN /\ elapsed < 60000 => ReturnedPERCLOS = Norm(100 * closed, elapsed)
       /\ elapsed >= 60000 => ReturnedPERCLOS = Norm(100 * closed, 60000)
       /\ ret[1].value.details[2] = Div(MathRound(Mul(ReturnedPERCLOS, Num(10))), Num(10))

\* getScore with closed time, more than W after creation
C11_Witness ==
  /\ Returned
  /\ ret[1].at - startTime > 60000
  /\ closedTimeMs(ReturnedRecent, Len(ReturnedRecent)) > 0
  /\ ReturnedPERCLOS = Norm(100 * closedTimeMs(ReturnedRecent, Len(ReturnedRecent)), 60000)

\* the samples of h that are less than W old at now
InWindow(h, now) == SelectSeq(h, LAMBDA record : now - record.timestamp < 60000)

\* C12: a retained sample with timestamp <= now - W has no influence on
\* getScore(now): the result, the PERCLOS and the closed time are those of the
\* samples with timestamp > now - W alone.
C12_OnlyWindowSamples ==
  Returned =>
    LET inside == InWindow(earHistory, ret[1].at)
    IN /\ ret[1].value = getScore(inside, startTime, ret[1].at)
       /\ ReturnedPERCLOS = calculatePERCLOS(inside, startTime, ret[1].at)
       /\ ReturnedPERCLOS =
            IF inside = <<>> THEN Num(0)
            ELSE Norm(100 * RuleClosedTime(inside), ReturnedWindow)

\* getScore over a history whose oldest sample is closed, outside the window and
\* followed by samples inside it
C12_Witness ==
  /\ Returned
  /\ Len(earHistory) > 1
  /\ earHistory[1].timestamp <= ret[1].at - 60000
  /\ BelowThreshold(earHistory[1].ear)
  /\ earHistory[2].timestamp > earHistory[1].timestamp
  /\ earHistory[2].timestamp > ret[1].at - 60000

(***************************************************************************)
(* Further claims about the score mapping (checked under ScoreSpec)        *)
(***************************************************************************)

C17_FatigueBranchComment ==
  mapped # <<>> =>
    LET p == perclosIn[1]
    IN /\ p = Num(20) => mapped[1].score = Num(60)
       /\ p = Num(30) => mapped[1].score = Num(30)
       /\ Ge(p, Num(40)) => mapped[1].score = Num(0)

(***************************************************************************)
(* Further claims about the detector (checked under Spec)                  *)
(***************************************************************************)

\* C14: the level getScore returns is normal iff 0 <= PERCLOS < 15, mild
\* fatigue iff 15 <= PERCLOS < 20, fatigue iff PERCLOS >= 20, and it is one of
\* these three labels.
C14_LevelByPERCLOS ==
  Returned =>
    LET p == ReturnedPERCLOS
        level == ret[1].value.level
    IN /\ level \in {"normal", "mild fatigue", "fatigue"}
       /\ (level = "normal") <=> (Ge(p, Num(0)) /\ Lt(p, Num(15)))
       /\ (level = "mild fatigue") <=> (Ge(p, Num(15)) /\ Lt(p, Num(20)))
       /\ (level = "fatigue") <=> Ge(p, Num(20))

\* the samples of the history that an update at time now keeps
KeptAt(h, now) == SelectSeq(h, LAMBDA record : now - record.timestamp < 2 * 60000)

\* C15: update(ratio, now) changes the history only by removing the samples
\* with timestamp <= now - 2W and appending one sample (now, ratio) at the end:
\* every other sample stays, unmodified and in order, and t0 is unchanged.
C15_UpdateFrame ==
  [][earHistory' # earHistory =>
       LET kept == KeptAt(earHistory, clock)
           n == Len(earHistory')
       IN /\ n = Len(kept) + 1
          /\ SubSeq(earHistory', 1, n - 1) = kept
          /\ earHistory'[n].timestamp = clock
          /\ earHistory'[n].ear \in {Norm(1, 10), Norm(1, 5), Norm(3, 10), PosInf, NaN}
          /\ startTime' = startTime
          /\ lastUpdateTime' = clock]_vars

\* right after an update, 2W or more after creation, that kept a sample
\* older than W next to the new one
C15_Witness ==
  /\ ret = <<>>
  /\ lastUpdateTime = clock
  /\ clock - startTime >= 2 * 60000
  /\ Len(earHistory) >= 2
  /\ earHistory[1].timestamp < clock - 60000
  /\ earHistory[Len(earHistory)].timestamp = clock

\* C18: with a non-zero effective window the closed time never exceeds the
\* effective window, so 0 <= PERCLOS <= 100.
C18_PerclosIsPercentage ==
  (Returned /\ ReturnedWindow > 0) =>
    /\ closedTimeMs(ReturnedRecent, Len(ReturnedRecent)) <= ReturnedWindow
    /\ Ge(ReturnedPERCLOS, Num(0))
    /\ Ge(Num(100), ReturnedPERCLOS)

(***************************************************************************)
(* Claims about the eye aspect ratio (checked under EarSpec)               *)
(***************************************************************************)
ShapeRatio(shape) == Norm(shape.lid1 + shape.lid2, 2 * shape.corner.len)

\* C16: each eye's ratio is (vertical1 + vertical2) / (2 x horizontal), the
\* value passed on is the arithmetic mean of the two eyes' ratios, and an eye
\* with horizontal distance 10 and both vertical distances 2 has ratio exactly
\* 0.2, which is not closed.
C16_EyeAspectRatio ==
  earOut # <<>> =>
    /\ earOut[1] = ShapeRatio(eyesIn[1])
    /\ earOut[2] = ShapeRatio(eyesIn[2])
    /\ earOut[3] = Div(Add(ShapeRatio(eyesIn[1]), ShapeRatio(eyesIn[2])), Num(2))
    /\ (IsFinite(earOut[1]) /\ IsFinite(earOut[2])) =>
         /\ IsFinite(earOut[3])
         /\ 2 * earOut[3].n * earOut[1].d * earOut[2].d =
              earOut[3].d * (earOut[1].n * earOut[2].d + earOut[2].n * earOut[1].d)
    /\ (eyesIn[1].corner.len = 10 /\ eyesIn[1].lid1 = 2 /\ eyesIn[1].lid2 = 2) =>
         /\ earOut[1] = Norm(1, 5)
         /\ ~isClosed([timestamp |-> 0, ear |-> earOut[1]])

\* both eyes 10 wide with both lid pairs 2 apart, the left one tilted
C16_Witness ==
  /\ earOut # <<>>
  /\ eyesIn[1] = [corner |-> [dx |-> 6, dy |-> 8, len |-> 10], lid1 |-> 2, lid2 |-> 2]
  /\ eyesIn[2] = [corner |-> [dx |-> 10, dy |-> 0, len |-> 10], lid1 |-> 2, lid2 |-> 2]
  /\ earOut = <<Norm(1, 5), Norm(1, 5), Norm(1, 5)>>

(***************************************************************************)
(* Claims about SpotCheckApp (checked under AppSpec and AppFairSpec)       *)
(***************************************************************************)

\* C19: once cancelMeasurement has run, the app stays in state idle with
\* isRunning false until start is pressed again.
C19_CancelIsFinal ==
  cancelled => (currentState = "idle" /\ isRunning = FALSE)

\* C20: a measurement that is under way and not cancelled eventually reaches
\* the state result, also when detect() calls throw.
C20_MeasurementCompletes ==
  (currentState = "measuring" /\ ~cancelled) ~> (currentState = "result" \/ cancelled)

\* C21: at most one detection loop is live: a frame callback of an earlier
\* measurement never goes on to call detect() once a later measurement has
\* set isRunning to true, so only the loop of the measurement that last
\* started (the one that made the current perclosDetector) passes the
\* isRunning test.
C21_OneLiveLoop ==
  [][\A c \in Calls :
       (loopPc[c] = "frame" /\ loopPc'[c] = "detect") => c = perclosDetector]_vars

\* C22: in the states idle and result no measurement is running and the
\* camera is released: isRunning is false, video.srcObject is null and no
\* stream obtained from getUserMedia still has live tracks.
C22_IdleResultReleased ==
  currentState \in {"idle", "result"} =>
    (isRunning = FALSE /\ srcObject = 0 /\ liveStreams = {})

====
